---- MODULE Spec2Model ----
(***************************************************************************)
(* Model of landshark/image.py: the pixel-edge coordinate arrays built     *)
(* from an affine transform (pixel_coordinates) and the two lookups over   *)
(* them (image_to_world, world_to_image).                                  *)
(*                                                                         *)
(* Arrays are sequences; the source indexes from 0, so element i of an     *)
(* array a is a[i + 1].  Coordinates are float64 in the source; the model  *)
(* draws small integers, on which float64 arithmetic is exact.             *)
(***************************************************************************)
EXTENDS Integers, Sequences, FiniteSets, TLC

\* Bounds of the enumerated inputs.
MaxDim == 3
MaxScale == 2
MaxShear == 1
MaxOrigin == 1
MaxBatch == 2

VARIABLES width, height, affine, pc, coords_x, coords_y, call, prev

vars == <<width, height, affine, pc, coords_x, coords_y, call, prev>>

-----------------------------------------------------------------------------
\* Outcomes of a call: a returned value, or a raised exception (no value).
Ok(ret) == [ok |-> TRUE, ret |-> ret, err |-> "none"]

Raise(e) == [ok |-> FALSE, ret |-> <<>>, err |-> e]

-----------------------------------------------------------------------------
\* numpy helpers used by the source.

\* np.arange(n): 0, 1, ..., n-1; empty when n <= 0.
arange(n) == [i \in 1..(IF n > 0 THEN n ELSE 0) |-> i - 1]

\* a[::-1]
Reversed(a) == [i \in 1..Len(a) |-> a[Len(a) + 1 - i]]

\* np.searchsorted(a, v, side) on an ascending array a:
\* side="left" gives i with a[i-1] < v <= a[i], side="right" gives i with
\* a[i-1] <= v < a[i]; that is the number of elements below (resp. not
\* above) v.
searchsorted(a, v, side) ==
    IF side = "left"
    THEN Cardinality({j \in 1..Len(a) : a[j] < v})
    ELSE Cardinality({j \in 1..Len(a) : a[j] <= v})

\* a[i] for one python index i: negative indices count from the end.
InRange(a, i) == i >= 0 - Len(a) /\ i < Len(a)

GetItem(a, i) == IF i < 0 THEN a[Len(a) + i + 1] ELSE a[i + 1]

-----------------------------------------------------------------------------
\* affine.is_rectilinear (affine package): a == e == 0 or b == d == 0.
\* The transform is <<a, b, c, d, e, f>>, affine[k] is element k + 1.
is_rectilinear(aff) ==
    (aff[1] = 0 /\ aff[5] = 0) \/ (aff[2] = 0 /\ aff[4] = 0)

pixel_width(aff) == aff[1]

pixel_height_unflipped(aff) == aff[5]

pixel_height(aff) == (0 - 1) * aff[5]

pix_short(n) == arange(n)

\* pix_x, pix_y: +1 for the outer corner.
pix(n) == arange(n + 1)

edge_coords(pixels, size, origin) ==
    [i \in 1..Len(pixels) |-> (pixels[i] * size) + origin]

pixel_coordinates(w, h, aff) ==
    IF ~is_rectilinear(aff)
    THEN Raise("AssertionError")
    ELSE Ok(<<edge_coords(pix(w), pixel_width(aff), aff[3]),
              edge_coords(pix(h), pixel_height(aff), aff[6])>>)

-----------------------------------------------------------------------------
\* image_to_world

indices_any_sign(indices) == TRUE

\* np.all(indices >= 0)
indices_nonneg(indices) == \A k \in 1..Len(indices) : indices[k] >= 0

\* np.all(indices < (pixel_coordinate_array.shape[0] - 1))
indices_below_res(indices, pca) ==
    \A k \in 1..Len(indices) : indices[k] < Len(pca) - 1

\* pixel_coordinate_array[indices]
gather(pca, indices) ==
    IF \A k \in 1..Len(indices) : InRange(pca, indices[k])
    THEN Ok([k \in 1..Len(indices) |-> GetItem(pca, indices[k])])
    ELSE Raise("IndexError")

image_to_world(indices, pca) ==
    IF ~indices_nonneg(indices) THEN Raise("AssertionError")
    ELSE IF ~indices_below_res(indices, pca) THEN Raise("AssertionError")
    ELSE gather(pca, indices)

-----------------------------------------------------------------------------
\* world_to_image

rev_idx_unshifted(pca, p) == searchsorted(Reversed(pca), p, "left")

rev_idx(pca, p) == searchsorted(Reversed(pca), p, "left") + 1

fwd_idx_left(pca, p) == searchsorted(pca, p, "left") - 1

fwd_idx(pca, p) == searchsorted(pca, p, "right") - 1

on_end_never(p, pca) == FALSE

on_end_first(p, pca) == p = GetItem(pca, 0)

\* points == pixel_coordinate_array[-1]
on_end(p, pca) == p = GetItem(pca, 0 - 1)

in_image_any(idx, res) ==
    \E k \in 1..Len(idx) : idx[k] >= 0 /\ idx[k] < res

\* all(np.logical_and(idx >= 0, idx < res))
in_image(idx, res) ==
    \A k \in 1..Len(idx) : idx[k] >= 0 /\ idx[k] < res

world_to_image(points, pca) ==
    IF Len(pca) < 2
    THEN Raise("IndexError")
    ELSE LET reverse == GetItem(pca, 1) < GetItem(pca, 0)
             idx == [k \in 1..Len(points) |->
                        IF reverse
                        THEN Len(pca) - rev_idx(pca, points[k])
                        ELSE fwd_idx(pca, points[k])]
             closed == [k \in 1..Len(points) |->
                           IF on_end(points[k], pca)
                           THEN idx[k] - 1
                           ELSE idx[k]]
             res == Len(pca) - 1
         IN  IF ~in_image(closed, res)
             THEN Raise("ValueError")
             ELSE Ok(closed)

-----------------------------------------------------------------------------
\* Inputs.

Dims == (0 - 1)..MaxDim

Scales == (0 - MaxScale)..MaxScale

Shears == 0..MaxShear

Origins == 0..MaxOrigin

Transforms ==
    {<<a, b, c, d, e, f>> : a \in Scales, b \in Shears, c \in Origins,
                            d \in Shears, e \in Scales, f \in Origins}

Batches(S) == UNION {[1..n -> S] : n \in 0..MaxBatch}

SetMin(S) == CHOOSE x \in S : \A y \in S : x <= y

SetMax(S) == CHOOSE x \in S : \A y \in S : x >= y

Elems(a) == {a[i] : i \in 1..Len(a)}

\* World coordinates offered to a lookup: the extent of the array and one
\* unit beyond either end.
QueryPoints(pca) ==
    IF Len(pca) = 0 THEN {0}
    ELSE (SetMin(Elems(pca)) - 1)..(SetMax(Elems(pca)) + 1)

\* Pixel indices offered to a lookup: every pixel, and one below and two
\* above the valid ones.
QueryIndices(pca) == (0 - 1)..Len(pca)

Axes == {"x", "y"}

Grid(axis) == IF axis = "x" THEN coords_x ELSE coords_y

NoCall == [fn |-> "none", axis |-> "none", arg |-> <<>>, out |-> Ok(<<>>)]

-----------------------------------------------------------------------------
Init ==
    /\ width \in Dims
    /\ height \in Dims
    /\ affine \in Transforms
    /\ pc = "start"
    /\ coords_x = <<>>
    /\ coords_y = <<>>
    /\ call = NoCall
    /\ prev = NoCall

PixelCoordinates ==
    /\ pc = "start"
    /\ LET r == pixel_coordinates(width, height, affine)
       IN  IF r.ok
           THEN /\ pc' = "built"
                /\ coords_x' = r.ret[1]
                /\ coords_y' = r.ret[2]
           ELSE /\ pc' = "failed"
                /\ UNCHANGED <<coords_x, coords_y>>
    /\ UNCHANGED <<width, height, affine, call, prev>>

\* A forward lookup: the first lookup over the arrays, on fresh indices, or a
\* lookup of the indices the preceding inverse lookup over the same array
\* returned.  The lookups are pure, so one fresh lookup followed by its
\* compositions covers every call.
ImageToWorld ==
    /\ pc = "built"
    /\ \/ /\ call.fn = "none"
          /\ \E axis \in Axes : \E indices \in Batches(QueryIndices(Grid(axis))) :
                call' = [fn |-> "image_to_world", axis |-> axis,
                         arg |-> indices,
                         out |-> image_to_world(indices, Grid(axis))]
          /\ prev' = NoCall
       \/ /\ call.fn = "world_to_image"
          /\ call.out.ok
          /\ call' = [fn |-> "image_to_world", axis |-> call.axis,
                      arg |-> call.out.ret,
                      out |-> image_to_world(call.out.ret, Grid(call.axis))]
          /\ prev' = call
    /\ UNCHANGED <<width, height, affine, pc, coords_x, coords_y>>

\* An inverse lookup: the first lookup over the arrays, on fresh points, or a
\* lookup of the coordinates the preceding forward lookup over the same array
\* returned.
WorldToImage ==
    /\ pc = "built"
    /\ \/ /\ call.fn = "none"
          /\ \E axis \in Axes : \E points \in Batches(QueryPoints(Grid(axis))) :
                call' = [fn |-> "world_to_image", axis |-> axis,
                         arg |-> points,
                         out |-> world_to_image(points, Grid(axis))]
          /\ prev' = NoCall
       \/ /\ call.fn = "image_to_world"
          /\ call.out.ok
          /\ call' = [fn |-> "world_to_image", axis |-> call.axis,
                      arg |-> call.out.ret,
                      out |-> world_to_image(call.out.ret, Grid(call.axis))]
          /\ prev' = call
    /\ UNCHANGED <<width, height, affine, pc, coords_x, coords_y>>

Next ==
    \/ PixelCoordinates
    \/ ImageToWorld
    \/ WorldToImage

Spec == Init /\ [][Next]_vars

-----------------------------------------------------------------------------
\* Vocabulary of the properties.

Dim(axis) == IF axis = "x" THEN width ELSE height

Scale(axis) == IF axis = "x" THEN affine[1] ELSE affine[5]

Last(g) == g[Len(g)]

StrictAsc(g) == \A i \in 1..(Len(g) - 1) : g[i] < g[i + 1]

StrictDesc(g) == \A i \in 1..(Len(g) - 1) : g[i] > g[i + 1]

StrictMono(g) == Len(g) >= 2 /\ (StrictAsc(g) \/ StrictDesc(g))

Extent(g) == SetMin(Elems(g))..SetMax(Elems(g))

\* Pixel i owns p, half-open in the direction the array runs.
Owns(g, i, p) ==
    IF StrictAsc(g)
    THEN g[i + 1] <= p /\ p < g[i + 2]
    ELSE g[i + 1] >= p /\ p > g[i + 2]

Inverse(axis) == call.fn = "world_to_image" /\ call.axis = axis

Forward(axis) == call.fn = "image_to_world" /\ call.axis = axis

-----------------------------------------------------------------------------
\* C1: on every array built with a nonzero scale, the forward lookup of a
\* pixel index i in 0..pixel_count-1 followed by the inverse lookup of the
\* coordinate it returned gives back i.
RoundTripPixel ==
    pc = "built" =>
        \A axis \in Axes :
            Scale(axis) # 0 =>
                /\ \A i \in 0..(Dim(axis) - 1) :
                       LET w == image_to_world(<<i>>, Grid(axis))
                       IN  /\ w.ok
                           /\ world_to_image(w.ret, Grid(axis)) = Ok(<<i>>)
                /\ (Inverse(axis) /\ prev.fn = "image_to_world"
                        /\ Len(prev.arg) >= 1)
                       => call.out = Ok(prev.arg)

RoundTripPixelWitness ==
    /\ pc = "built"
    /\ call.fn = "world_to_image"
    /\ call.axis = "x"
    /\ prev.fn = "image_to_world"
    /\ affine[1] < 0
    /\ width >= 2
    /\ prev.arg = <<width - 1>>
    /\ call.out = Ok(<<width - 1>>)

\* C2: on a strictly monotonic array of N pixels, a coordinate inside the
\* extent other than the final edge resolves to the one index i in 0..N-1
\* with g[i] <= p < g[i+1] (ascending) or g[i] >= p > g[i+1] (descending).
HalfOpenOwnership ==
    pc = "built" =>
        \A axis \in Axes :
            LET g == Grid(axis)
            IN  StrictMono(g) =>
                    /\ \A p \in Extent(g) \ {Last(g)} :
                           LET r == world_to_image(<<p>>, g)
                           IN  /\ r.ok
                               /\ \A i \in 0..(Len(g) - 2) :
                                      Owns(g, i, p) <=> i = r.ret[1]
                    /\ (Inverse(axis) /\ call.out.ok) =>
                           \A k \in 1..Len(call.arg) :
                               call.arg[k] # Last(g) =>
                                   \E i \in 0..(Len(g) - 2) :
                                       /\ i = call.out.ret[k]
                                       /\ Owns(g, i, call.arg[k])

\* A point strictly between two edges of a descending array, and an interior
\* edge, both resolved.
HalfOpenOwnershipWitness ==
    /\ pc = "built"
    /\ Inverse("y")
    /\ StrictDesc(coords_y)
    /\ height >= 2
    /\ call.out.ok
    /\ Len(call.arg) = 2
    /\ call.arg[1] = coords_y[2]
    /\ call.out.ret[1] = 1
    /\ call.arg[2] \notin Elems(coords_y)
    /\ call.out.ret[2] = 0

\* C3: on a strictly monotonic array of N pixels the final edge g[N] resolves
\* to N-1 without an error, and every other edge g[i], i < N, resolves to i.
BoundaryClosure ==
    pc = "built" =>
        \A axis \in Axes :
            LET g == Grid(axis)
            IN  StrictMono(g) =>
                    /\ world_to_image(<<Last(g)>>, g) = Ok(<<Len(g) - 2>>)
                    /\ \A i \in 0..(Len(g) - 2) :
                           world_to_image(<<g[i + 1]>>, g) = Ok(<<i>>)
                    /\ Inverse(axis) =>
                           \A k \in 1..Len(call.arg) :
                               /\ call.arg[k] = Last(g) =>
                                      /\ call.out.ok
                                         \/ \E j \in 1..Len(call.arg) :
                                                call.arg[j] \notin Extent(g)
                                      /\ call.out.ok =>
                                             call.out.ret[k] = Len(g) - 2
                               /\ \A i \in 0..(Len(g) - 2) :
                                      (call.out.ok /\ call.arg[k] = g[i + 1])
                                          => call.out.ret[k] = i

BoundaryClosureWitness ==
    /\ pc = "built"
    /\ \E axis \in Axes :
           /\ Inverse(axis)
           /\ StrictMono(Grid(axis))
           /\ Len(Grid(axis)) >= 3
           /\ call.arg = <<Last(Grid(axis)), Grid(axis)[Len(Grid(axis)) - 1]>>
           /\ call.out = Ok(<<Len(Grid(axis)) - 2, Len(Grid(axis)) - 2>>)

\* C4: on a strictly monotonic array an inverse lookup of a batch raises,
\* returning nothing, exactly when some coordinate of the batch lies strictly
\* outside the closed extent; when it returns, every index is in
\* 0..len(grid)-2.
OutOfBoundsRejection ==
    pc = "built" =>
        \A axis \in Axes :
            LET g == Grid(axis)
            IN  StrictMono(g) =>
                    /\ ~world_to_image(<<SetMin(Elems(g)) - 1>>, g).ok
                    /\ ~world_to_image(<<SetMax(Elems(g)) + 1>>, g).ok
                    /\ Inverse(axis) =>
                           /\ ~call.out.ok <=>
                                  \E k \in 1..Len(call.arg) :
                                      call.arg[k] \notin Extent(g)
                           /\ ~call.out.ok => call.out.ret = <<>>
                           /\ call.out.ok =>
                                  /\ Len(call.out.ret) = Len(call.arg)
                                  /\ \A k \in 1..Len(call.out.ret) :
                                         call.out.ret[k] \in 0..(Len(g) - 2)

\* A batch of one coordinate inside and one outside the extent: rejected whole.
OutOfBoundsRejectionWitness ==
    /\ pc = "built"
    /\ \E axis \in Axes :
           /\ Inverse(axis)
           /\ StrictDesc(Grid(axis))
           /\ Len(Grid(axis)) >= 3
           /\ Len(call.arg) = 2
           /\ call.arg[1] \in Extent(Grid(axis))
           /\ call.arg[2] \notin Extent(Grid(axis))
           /\ call.out = Raise("ValueError")

NonFinalEdges(g) == {g[i + 1] : i \in 0..(Len(g) - 2)}

\* C5 as stated: for every coordinate c in the closed extent of a strictly
\* monotonic array, the inverse lookup of c followed by the forward lookup of
\* the index it returned gives back c.
InverseThenForwardIdentity ==
    pc = "built" =>
        \A axis \in Axes :
            StrictMono(Grid(axis)) =>
                ((Forward(axis) /\ prev.fn = "world_to_image"
                      /\ Len(prev.arg) = 1)
                    => call.out = Ok(prev.arg))

\* C5 as amended: for every coordinate c in the closed extent of a strictly
\* monotonic array, the inverse lookup followed by the forward lookup succeeds
\* and returns the first edge g[i] of the pixel that owns c; that is c
\* exactly when c is one of the non-final edges g[0..N-1].
InverseThenForwardOwnerEdge ==
    pc = "built" =>
        \A axis \in Axes :
            LET g == Grid(axis)
            IN  StrictMono(g) =>
                    /\ \A c \in Extent(g) :
                           LET r == world_to_image(<<c>>, g)
                               f == image_to_world(r.ret, g)
                           IN  /\ r.ok
                               /\ f.ok
                               /\ f.ret \in {<<e>> : e \in NonFinalEdges(g)}
                               /\ c # Last(g) => Owns(g, r.ret[1], c)
                               /\ f.ret = <<c>> <=> c \in NonFinalEdges(g)
                    /\ (Forward(axis) /\ prev.fn = "world_to_image") =>
                           /\ call.out.ok
                           /\ Len(call.out.ret) = Len(prev.arg)
                           /\ \A k \in 1..Len(prev.arg) :
                                  /\ call.out.ret[k] = g[prev.out.ret[k] + 1]
                                  /\ call.out.ret[k] = prev.arg[k] <=>
                                         prev.arg[k] \in NonFinalEdges(g)

\* The final edge and a point strictly inside a pixel, looked up and mapped
\* back: neither comes back.
InverseThenForwardOwnerEdgeWitness ==
    /\ pc = "built"
    /\ \E axis \in Axes :
           /\ Forward(axis)
           /\ prev.fn = "world_to_image"
           /\ StrictMono(Grid(axis))
           /\ Len(prev.arg) = 2
           /\ prev.arg[1] = Last(Grid(axis))
           /\ prev.arg[2] \notin Elems(Grid(axis))
           /\ call.out.ok
           /\ call.out.ret[1] # prev.arg[1]
           /\ call.out.ret[2] # prev.arg[2]

\* The array over the same extent running the other way: the sign of the
\* axis's scale reversed and the origin moved to the other end.
MirroredTransform(axis) ==
    IF axis = "x"
    THEN <<0 - affine[1], affine[2], affine[3] + (width * affine[1]),
           affine[4], affine[5], affine[6]>>
    ELSE <<affine[1], affine[2], affine[3],
           affine[4], 0 - affine[5],
           affine[6] + (height * pixel_height(affine))>>

MirroredGrid(axis) ==
    LET r == pixel_coordinates(width, height, MirroredTransform(axis))
    IN  IF axis = "x" THEN r.ret[1] ELSE r.ret[2]

InteriorEdges(g) == {g[i + 1] : i \in 1..(Len(g) - 2)}

\* C6 as stated: for an ascending array g of N pixels, the mirrored descending
\* array g' (g'[j] = g[N-j]) and every coordinate p inside the extent, the
\* inverse lookup of p over g' is N - 1 - (the inverse lookup of p over g).
OrientationSymmetry ==
    pc = "built" =>
        \A axis \in Axes :
            LET g == Grid(axis)
            IN  (Len(g) >= 2 /\ StrictAsc(g)) =>
                    ((Inverse(axis) /\ Len(call.arg) = 1
                          /\ call.arg[1] \in Extent(g))
                        => world_to_image(call.arg, MirroredGrid(axis))
                               = Ok(<<Len(g) - 2 - call.out.ret[1]>>))

\* C6 as amended: the mirrored lookup is N - 1 - (the ascending lookup) for
\* every p inside the extent that is not an interior edge g[i], 0 < i < N; at
\* an interior edge g[i] the ascending lookup gives i and the mirrored one
\* N - i.
OrientationSymmetryOffEdges ==
    pc = "built" =>
        \A axis \in Axes :
            LET g == Grid(axis)
                m == MirroredGrid(axis)
                n == Len(g) - 1
            IN  (Len(g) >= 2 /\ StrictAsc(g)) =>
                    /\ m = Reversed(g)
                    /\ \A p \in Extent(g) :
                           LET r == world_to_image(<<p>>, g)
                               q == world_to_image(<<p>>, m)
                           IN  /\ r.ok
                               /\ q.ok
                               /\ q.ret[1] =
                                      IF p \in InteriorEdges(g)
                                      THEN n - r.ret[1]
                                      ELSE n - 1 - r.ret[1]
                    /\ (Inverse(axis) /\ call.out.ok) =>
                           LET q == world_to_image(call.arg, m)
                           IN  /\ q.ok
                               /\ \A k \in 1..Len(call.arg) :
                                      q.ret[k] =
                                          IF call.arg[k] \in InteriorEdges(g)
                                          THEN n - call.out.ret[k]
                                          ELSE n - 1 - call.out.ret[k]

\* An interior edge and a point strictly inside a pixel of an ascending
\* array, both resolved.
OrientationSymmetryOffEdgesWitness ==
    /\ pc = "built"
    /\ \E axis \in Axes :
           /\ Inverse(axis)
           /\ StrictAsc(Grid(axis))
           /\ Len(Grid(axis)) >= 3
           /\ call.out.ok
           /\ Len(call.arg) = 2
           /\ call.arg[1] \in InteriorEdges(Grid(axis))
           /\ call.arg[2] \notin Elems(Grid(axis))

Flat(g) == \A i \in 1..Len(g) : \A j \in 1..Len(g) : g[i] = g[j]

\* C7: pixel_coordinates returns arrays only for a transform without shear,
\* with a nonzero scale on both axes, and a positive width and height; an
\* array it returns is never flat, empty or a single element.
ConfigurationRejection ==
    pc = "built" =>
        /\ affine[2] = 0
        /\ affine[4] = 0
        /\ affine[1] # 0
        /\ affine[5] # 0
        /\ width > 0
        /\ height > 0
        /\ Len(coords_x) >= 2
        /\ Len(coords_y) >= 2
        /\ ~Flat(coords_x)
        /\ ~Flat(coords_y)

\* C8: for a positive pixel count and a nonzero scale on an axis the array
\* built for it is strictly monotonic along its whole length; the x array
\* ascends exactly when scale_x > 0, the y array descends exactly when
\* scale_y > 0.
Monotonicity ==
    pc = "built" =>
        /\ (width > 0 /\ affine[1] # 0) =>
               /\ StrictMono(coords_x)
               /\ StrictAsc(coords_x) <=> affine[1] > 0
               /\ StrictDesc(coords_x) <=> affine[1] < 0
        /\ (height > 0 /\ affine[5] # 0) =>
               /\ StrictMono(coords_y)
               /\ StrictDesc(coords_y) <=> affine[5] > 0
               /\ StrictAsc(coords_y) <=> affine[5] < 0

MonotonicityWitness ==
    /\ pc = "built"
    /\ width >= 2
    /\ height >= 2
    /\ affine[1] < 0
    /\ affine[5] > 0
    /\ StrictDesc(coords_x)
    /\ StrictDesc(coords_y)

\* C9: a forward lookup of a batch whose indices all satisfy
\* 0 <= i < len(grid)-1 returns grid[i] at each position, never the final
\* edge; if any index is negative or >= len(grid)-1 the call fails and
\* returns nothing.
ForwardRangeCheck ==
    pc = "built" =>
        \A axis \in Axes :
            Forward(axis) =>
                LET g == Grid(axis)
                    valid == \A k \in 1..Len(call.arg) :
                                 call.arg[k] >= 0 /\ call.arg[k] < Len(g) - 1
                IN  /\ valid =>
                           /\ call.out.ok
                           /\ Len(call.out.ret) = Len(call.arg)
                           /\ \A k \in 1..Len(call.arg) :
                                  /\ call.out.ret[k] = g[call.arg[k] + 1]
                                  /\ StrictMono(g) => call.out.ret[k] # Last(g)
                    /\ ~valid => call.out = Raise("AssertionError")

\* A batch of a valid and a negative index over an array of two or more
\* pixels: rejected whole.
ForwardRangeCheckWitness ==
    /\ pc = "built"
    /\ \E axis \in Axes :
           /\ Forward(axis)
           /\ Len(Grid(axis)) >= 3
           /\ call.arg = <<0, 0 - 1>>
           /\ ~call.out.ok

\* C10: for a positive width and height and a transform without shear the
\* builder returns edges_x of width+1 elements, edges_x[i] = i*scale_x +
\* origin_x, and edges_y of height+1 elements, edges_y[i] = i*(-scale_y) +
\* origin_y.
EdgeGridConstruction ==
    (pc # "start" /\ width > 0 /\ height > 0
         /\ affine[2] = 0 /\ affine[4] = 0) =>
        /\ pc = "built"
        /\ Len(coords_x) = width + 1
        /\ \A i \in 0..width :
               coords_x[i + 1] = (i * affine[1]) + affine[3]
        /\ Len(coords_y) = height + 1
        /\ \A i \in 0..height :
               coords_y[i + 1] = (i * (0 - affine[5])) + affine[6]

EdgeGridConstructionWitness ==
    /\ pc = "built"
    /\ width >= 2
    /\ height >= 2
    /\ affine[2] = 0
    /\ affine[4] = 0
    /\ affine[1] > 1
    /\ affine[5] > 1
    /\ affine[3] # 0
    /\ affine[6] # 0
    /\ coords_x[width + 1] = (width * affine[1]) + affine[3]
    /\ coords_y[height + 1] = affine[6] - (height * affine[5])

====
